---- MODULE Spec2Model ----
(***************************************************************************)
(* Passport field-recovery pipeline of boyrevue/USER-UX:                   *)
(*   src/passporteye_extractor.py             (variant "basic")            *)
(*   src/passporteye_full_extractor.py        (variant "full")             *)
(*   src/passporteye_pure_extractor.py        (variant "pure")             *)
(*   src/passporteye_simplified_extractor.py  (variant "simplified")       *)
(* Strings are sequences of one-character strings; the regular expressions *)
(* of the pattern catalogs are sequences of quantified character classes   *)
(* matched greedily with backtracking, as Python's re module does.         *)
(***************************************************************************)
EXTENDS Integers, Sequences, FiniteSets, TLC

VARIABLES
    variant,                \* which of the four programs runs
    argc,                   \* len(sys.argv)
    image_path,             \* sys.argv[1]
    fs,                     \* the filesystem: path -> content, for the files that exist
    pc,                     \* position of the run
    mrz,                    \* the local variable mrz (None or a record)
    result,                 \* the dict the extraction function returns
    mrz_calls,              \* the read_mrz invocations in order: path, file content, answer
    fs_writes,              \* the paths written by Image.save
    fs_removes,             \* the paths removed by os.remove
    ocr_calls,              \* the image_to_string invocations in order: their answers
    idx,                    \* loop index over configs / regions
    full_texts,             \* the list full_texts of the whole-image mode
    issue_dates,            \* the list issue_dates of the region mode
    printed,                \* number of JSON documents printed
    exit_code,              \* -1 while running, then the process's exit status
    text,                   \* input of extract_issue_date_from_text (SpecText)
    date,                   \* its output (SpecText)
    libs,                   \* whether passporteye, PIL and pytesseract can be imported
    image_opens,            \* the Image.open invocations in order: path, file content, ok
    first_run               \* what the previous run on the same path printed and was answered

vars == << variant, argc, image_path, fs, pc, mrz, result, mrz_calls, fs_writes,
           fs_removes, ocr_calls, idx, full_texts, issue_dates, printed,
           exit_code, text, date, libs, image_opens, first_run >>

-----------------------------------------------------------------------------
(* Characters and Python string helpers                                    *)

UpperChars == << "A","B","C","D","E","F","G","H","I","J","K","L","M",
                 "N","O","P","Q","R","S","T","U","V","W","X","Y","Z" >>
LowerChars == << "a","b","c","d","e","f","g","h","i","j","k","l","m",
                 "n","o","p","q","r","s","t","u","v","w","x","y","z" >>
DigitChars == << "0","1","2","3","4","5","6","7","8","9" >>

Range(s) == { s[i] : i \in DOMAIN s }

\* str.upper() and str.lower() on one character
UpperOf == [ c \in Range(LowerChars) |->
               UpperChars[CHOOSE i \in DOMAIN LowerChars : LowerChars[i] = c] ]
LowerOf == [ c \in Range(UpperChars) |->
               LowerChars[CHOOSE i \in DOMAIN UpperChars : UpperChars[i] = c] ]
Upper(c) == IF c \in DOMAIN UpperOf THEN UpperOf[c] ELSE c
Lower(c) == IF c \in DOMAIN LowerOf THEN LowerOf[c] ELSE c
UpperStr(s) == [ i \in DOMAIN s |-> Upper(s[i]) ]

\* character classes of the regular expressions
D  == Range(DigitChars)                 \* \d
WS == { " ", "\n", "\t" }               \* \s
AZ == Range(UpperChars)                 \* [A-Z]
az == Range(LowerChars)                 \* [a-z]

\* int() of a string of decimal digits
DigitVal(c) == (CHOOSE i \in DOMAIN DigitChars : DigitChars[i] = c) - 1
RECURSIVE IntOf(_)
IntOf(s) == IF s = << >> THEN 0
            ELSE 10 * IntOf(SubSeq(s, 1, Len(s) - 1)) + DigitVal(s[Len(s)])

\* str.zfill(2)
zfill2(s) == IF Len(s) >= 2 THEN s
             ELSE IF Len(s) = 1 THEN << "0" >> \o s ELSE << "0", "0" >>

\* None and str values of an optional string
None == [ none |-> TRUE, s |-> << >> ]
Str(s) == [ none |-> FALSE, s |-> s ]

-----------------------------------------------------------------------------
(* Regular expressions: re.findall(pattern, text, re.IGNORECASE)           *)

\* One element of a pattern: a character class with a quantifier {lo,hi}
\* (hi = -1: unbounded), or an alternation of literal words; grp > 0 when the
\* element is the body of that capture group.
Cls(set, lo, hi, grp) ==
    [ kind |-> "cls", set |-> set, words |-> {}, lo |-> lo, hi |-> hi, grp |-> grp ]
Alt(words, grp) ==
    [ kind |-> "alt", set |-> {}, words |-> words, lo |-> 1, hi |-> 1, grp |-> grp ]
Lit(w) == [ i \in DOMAIN w |-> Cls({ w[i] }, 1, 1, 0) ]

\* re.IGNORECASE: a character matches a class when one of its cases is in it
InClass(c, set) == c \in set \/ Upper(c) \in set \/ Lower(c) \in set

WordAt(w, txt, pos) ==
    /\ pos + Len(w) - 1 <= Len(txt)
    /\ \A i \in DOMAIN w : InClass(txt[pos + i - 1], { w[i] })

\* the longest run of characters of the class from pos, at most hi long
RECURSIVE RunLen(_, _, _, _)
RunLen(e, txt, pos, n) ==
    IF (e.hi >= 0 /\ n >= e.hi) \/ pos + n > Len(txt) THEN n
    ELSE IF InClass(txt[pos + n], e.set) THEN RunLen(e, txt, pos, n + 1)
    ELSE n

NoMatch == [ ok |-> FALSE, end |-> 0, caps |-> << >> ]
SetCap(caps, g, s) == IF g = 0 THEN caps ELSE [ caps EXCEPT ![g] = s ]

\* Match elements k.. of re at position pos: greedy, backtracking to shorter
\* repetitions when the rest of the pattern fails.
RECURSIVE MatchAt(_, _, _, _, _), TryCount(_, _, _, _, _, _)
MatchAt(re, k, txt, pos, caps) ==
    IF k > Len(re) THEN [ ok |-> TRUE, end |-> pos, caps |-> caps ]
    ELSE IF re[k].kind = "alt"
    THEN LET ws == { w \in re[k].words : WordAt(w, txt, pos) }
         IN  IF ws = {} THEN NoMatch
             ELSE LET w == CHOOSE x \in ws : TRUE
                  IN  MatchAt(re, k + 1, txt, pos + Len(w),
                              SetCap(caps, re[k].grp, SubSeq(txt, pos, pos + Len(w) - 1)))
    ELSE LET n == RunLen(re[k], txt, pos, 0)
         IN  IF n < re[k].lo THEN NoMatch ELSE TryCount(re, k, txt, pos, n, caps)
TryCount(re, k, txt, pos, c, caps) ==
    LET r == MatchAt(re, k + 1, txt, pos + c,
                     SetCap(caps, re[k].grp, SubSeq(txt, pos, pos + c - 1)))
    IN  IF r.ok THEN r
        ELSE IF c > re[k].lo THEN TryCount(re, k, txt, pos, c - 1, caps)
        ELSE NoMatch

NumGroups(re) ==
    LET gs == { re[k].grp : k \in DOMAIN re } IN CHOOSE g \in gs : \A h \in gs : h <= g

\* re.findall: the non-overlapping matches left to right; one string per match
\* for a pattern with one group, a tuple of strings for several groups.
RECURSIVE FindFrom(_, _, _)
FindFrom(re, txt, pos) ==
    IF pos > Len(txt) THEN << >>
    ELSE LET r == MatchAt(re, 1, txt, pos, [ g \in 1..NumGroups(re) |-> << >> ])
         IN  IF r.ok
             THEN << [ tuple |-> NumGroups(re) > 1, g |-> r.caps ] >>
                  \o FindFrom(re, txt, IF r.end > pos THEN r.end ELSE pos + 1)
             ELSE FindFrom(re, txt, pos + 1)
findall(re, txt) == FindFrom(re, txt, 1)

\* len(match), match[i] (0-based) and isinstance(match, tuple)
len(m) == IF m.tuple THEN Len(m.g) ELSE Len(m.g[1])
item(m, i) == IF m.tuple THEN m.g[i + 1] ELSE << m.g[1][i + 1] >>
whole(m) == m.g[1]

-----------------------------------------------------------------------------
(* The pattern catalogs                                                    *)

MonthWords == { <<"S","E","P">>, <<"J","A","N">>, <<"F","E","B">>, <<"M","A","R">>,
                <<"A","P","R">>, <<"M","A","Y">>, <<"J","U","N">>, <<"J","U","L">>,
                <<"A","U","G">>, <<"O","C","T">>, <<"N","O","V">>, <<"D","E","C">> }

\* (\d{1,2})\s+(SEP|JAN|...|DEC)\s*/\s*[A-Z]{3,4}\s+(\d{2})
re_bilingual_a ==
    << Cls(D, 1, 2, 1), Cls(WS, 1, -1, 0), Alt(MonthWords, 2), Cls(WS, 0, -1, 0),
       Cls({"/"}, 1, 1, 0), Cls(WS, 0, -1, 0), Cls(AZ, 3, 4, 0), Cls(WS, 1, -1, 0),
       Cls(D, 2, 2, 3) >>
\* (\d{1,2})\s+(SEP|JAN|...|DEC)\s+/\s*[A-Z]{3,4}\s+(\d{2})
re_bilingual_b ==
    << Cls(D, 1, 2, 1), Cls(WS, 1, -1, 0), Alt(MonthWords, 2), Cls(WS, 1, -1, 0),
       Cls({"/"}, 1, 1, 0), Cls(WS, 0, -1, 0), Cls(AZ, 3, 4, 0), Cls(WS, 1, -1, 0),
       Cls(D, 2, 2, 3) >>
\* (\d{1,2})\s+([A-Z]{3,4})\s+(\d{2,4})
re_plain ==
    << Cls(D, 1, 2, 1), Cls(WS, 1, -1, 0), Cls(AZ, 3, 4, 2), Cls(WS, 1, -1, 0),
       Cls(D, 2, 4, 3) >>
\* (?i)date\s+of\s+issue[:\s]*(\d{1,2})\s+([A-Z]{3,4})\s+(\d{2,4})
re_labelled ==
    Lit(<<"d","a","t","e">>) \o << Cls(WS, 1, -1, 0) >> \o Lit(<<"o","f">>)
    \o << Cls(WS, 1, -1, 0) >> \o Lit(<<"i","s","s","u","e">>)
    \o << Cls({":"} \cup WS, 0, -1, 0) >> \o re_plain
\* [Gg][Ss3]*[Ss3]*er[ys]*[a-z]*er[ys]*[a-z]*(\d{2})
re_gfrag ==
    << Cls({"G","g"}, 1, 1, 0), Cls({"S","s","3"}, 0, -1, 0), Cls({"S","s","3"}, 0, -1, 0) >>
    \o Lit(<<"e","r">>) \o << Cls({"y","s"}, 0, -1, 0), Cls(az, 0, -1, 0) >>
    \o Lit(<<"e","r">>) \o << Cls({"y","s"}, 0, -1, 0), Cls(az, 0, -1, 0), Cls(D, 2, 2, 1) >>
\* [O0](\d)\s*[Ss]er[ys]*[a-z]*[Ss]ee[tT]*\s*(\d{2})
re_ofrag_seet ==
    << Cls({"O","0"}, 1, 1, 0), Cls(D, 1, 1, 1), Cls(WS, 0, -1, 0), Cls({"S","s"}, 1, 1, 0) >>
    \o Lit(<<"e","r">>) \o << Cls({"y","s"}, 0, -1, 0), Cls(az, 0, -1, 0),
                              Cls({"S","s"}, 1, 1, 0) >>
    \o Lit(<<"e","e">>) \o << Cls({"t","T"}, 0, -1, 0), Cls(WS, 0, -1, 0), Cls(D, 2, 2, 2) >>
\* [O0](\d)\s*[Ss][Ee][PpRr]\s*[\/\\]*\s*[Ss][Ee][PpRr][Tt]*\s*(\d{2})
re_ofrag_sep ==
    << Cls({"O","0"}, 1, 1, 0), Cls(D, 1, 1, 1), Cls(WS, 0, -1, 0),
       Cls({"S","s"}, 1, 1, 0), Cls({"E","e"}, 1, 1, 0), Cls({"P","p","R","r"}, 1, 1, 0),
       Cls(WS, 0, -1, 0), Cls({"/","\\"}, 0, -1, 0), Cls(WS, 0, -1, 0),
       Cls({"S","s"}, 1, 1, 0), Cls({"E","e"}, 1, 1, 0), Cls({"P","p","R","r"}, 1, 1, 0),
       Cls({"T","t"}, 0, -1, 0), Cls(WS, 0, -1, 0), Cls(D, 2, 2, 2) >>
\* [O0](\d)\s*[Ss]er[a-z]*[Ss]eer\s*(\d{2})
re_ofrag_seer ==
    << Cls({"O","0"}, 1, 1, 0), Cls(D, 1, 1, 1), Cls(WS, 0, -1, 0), Cls({"S","s"}, 1, 1, 0) >>
    \o Lit(<<"e","r">>) \o << Cls(az, 0, -1, 0), Cls({"S","s"}, 1, 1, 0) >>
    \o Lit(<<"e","e","r">>) \o << Cls(WS, 0, -1, 0), Cls(D, 2, 2, 2) >>

\* the list patterns of each file (Python index i is position i + 1)
patterns_full ==
    << re_bilingual_a, re_bilingual_b, re_gfrag, re_ofrag_seet, re_ofrag_sep,
       re_ofrag_seer, re_labelled, re_plain >>
patterns_pure ==
    << re_bilingual_a, re_bilingual_b, re_labelled, re_plain, re_gfrag,
       re_ofrag_seet, re_ofrag_sep >>
patterns_simplified ==
    << re_bilingual_a, re_bilingual_b, re_labelled, re_plain, re_gfrag,
       re_ofrag_seet, re_ofrag_sep >>

month_map ==
    [ m \in MonthWords |->
        CASE m = <<"J","A","N">> -> <<"0","1">> [] m = <<"F","E","B">> -> <<"0","2">>
          [] m = <<"M","A","R">> -> <<"0","3">> [] m = <<"A","P","R">> -> <<"0","4">>
          [] m = <<"M","A","Y">> -> <<"0","5">> [] m = <<"J","U","N">> -> <<"0","6">>
          [] m = <<"J","U","L">> -> <<"0","7">> [] m = <<"A","U","G">> -> <<"0","8">>
          [] m = <<"S","E","P">> -> <<"0","9">> [] m = <<"O","C","T">> -> <<"1","0">>
          [] m = <<"N","O","V">> -> <<"1","1">> [] m = <<"D","E","C">> -> <<"1","2">> ]

-----------------------------------------------------------------------------
(* extract_issue_date_from_text                                            *)

\* "Handle 2-digit years": if len(year) == 2, prefix "20" up to the limit,
\* "19" above it; any other length is left as it is
window(year, limit) ==
    IF Len(year) = 2
    THEN IF IntOf(year) <= limit THEN << "2", "0" >> \o year ELSE << "1", "9" >> \o year
    ELSE year

\* f"{year}-{month}-{day}"
iso(year, month, day) == year \o << "-" >> \o month \o << "-" >> \o day

SEP09 == << "0", "9" >>
DAY03 == << "0", "3" >>

\* the body of "for match in matches", full extractor: the value returned, or
\* None when the loop goes on to the next match
on_match_full(i, m) ==
    IF i < 2 THEN
        IF len(m) >= 3 /\ UpperStr(item(m, 1)) \in DOMAIN month_map
        THEN Str(iso(window(item(m, 2), 30), month_map[UpperStr(item(m, 1))],
                     zfill2(item(m, 0))))
        ELSE None
    ELSE IF i < 6 THEN
        IF i = 2 THEN
            IF len(m) >= 1
            THEN Str(iso(window(IF m.tuple THEN item(m, 0) ELSE whole(m), 50), SEP09, DAY03))
            ELSE None
        ELSE IF len(m) >= 2
        THEN Str(iso(window(item(m, 1), 50), SEP09, zfill2(<< "0" >> \o item(m, 0))))
        ELSE None
    ELSE
        IF len(m) >= 3 /\ UpperStr(item(m, 1)) \in DOMAIN month_map
        THEN Str(iso(window(item(m, 2), 30), month_map[UpperStr(item(m, 1))],
                     zfill2(item(m, 0))))
        ELSE None

\* mutant of on_match_pure: the year-only branch windows at 30, as the
\* standard branches of the full extractor do
on_match_pure_30(i, m) ==
    IF i < 2 THEN
        IF len(m) >= 3 /\ UpperStr(item(m, 1)) \in DOMAIN month_map
        THEN Str(iso(window(item(m, 2), 50), month_map[UpperStr(item(m, 1))],
                     zfill2(item(m, 0))))
        ELSE None
    ELSE IF i = 4 THEN
        IF len(m) >= 1
        THEN Str(iso(window(IF m.tuple THEN item(m, 0) ELSE whole(m), 30), SEP09, DAY03))
        ELSE None
    ELSE
        IF len(m) >= 2
        THEN Str(iso(window(IF len(m) > 1 THEN item(m, 1) ELSE item(m, 0), 50), SEP09,
                     IF i > 4 THEN zfill2(<< "0" >> \o item(m, 0)) ELSE DAY03))
        ELSE None

\* the same loop body in the pure extractor
on_match_pure(i, m) ==
    IF i < 2 THEN
        IF len(m) >= 3 /\ UpperStr(item(m, 1)) \in DOMAIN month_map
        THEN Str(iso(window(item(m, 2), 50), month_map[UpperStr(item(m, 1))],
                     zfill2(item(m, 0))))
        ELSE None
    ELSE IF i = 4 THEN
        IF len(m) >= 1
        THEN Str(iso(window(IF m.tuple THEN item(m, 0) ELSE whole(m), 50), SEP09, DAY03))
        ELSE None
    ELSE
        IF len(m) >= 2
        THEN Str(iso(window(IF len(m) > 1 THEN item(m, 1) ELSE item(m, 0), 50), SEP09,
                     IF i > 4 THEN zfill2(<< "0" >> \o item(m, 0)) ELSE DAY03))
        ELSE None

\* the same loop body in the simplified extractor
on_match_simplified(i, m) ==
    IF i < 2 THEN
        IF len(m) >= 3 /\ UpperStr(item(m, 1)) \in DOMAIN month_map
        THEN Str(iso(window(item(m, 2), 50), month_map[UpperStr(item(m, 1))],
                     zfill2(item(m, 0))))
        ELSE None
    ELSE IF i = 4 THEN
        IF len(m) >= 1
        THEN Str(iso(window(IF m.tuple THEN item(m, 0) ELSE whole(m), 50), SEP09, DAY03))
        ELSE None
    ELSE
        IF len(m) >= 2
        THEN Str(iso(window(IF len(m) > 1 THEN item(m, 1) ELSE item(m, 0), 50), SEP09,
                     IF i > 4 THEN zfill2(<< "0" >> \o item(m, 0)) ELSE DAY03))
        ELSE None

on_match(v, i, m) ==
    CASE v = "full" -> on_match_full(i, m)
      [] v = "pure" -> on_match_pure(i, m)
      [] v = "simplified" -> on_match_simplified(i, m)

patterns(v) ==
    CASE v = "full" -> patterns_full
      [] v = "pure" -> patterns_pure
      [] v = "simplified" -> patterns_simplified

\* mutant of match_loop: only the first match of a pattern is tried
match_loop_first_only(v, i, ms, j) ==
    IF j > Len(ms) THEN None ELSE on_match(v, i, ms[j])

\* for i, pattern in enumerate(patterns): for match in matches: ... return
RECURSIVE match_loop(_, _, _, _), pattern_loop(_, _, _)
match_loop(v, i, ms, j) ==
    IF j > Len(ms) THEN None
    ELSE LET r == on_match(v, i, ms[j])
         IN  IF r.none THEN match_loop(v, i, ms, j + 1) ELSE r
pattern_loop(v, i, txt) ==
    IF i >= Len(patterns(v)) THEN None
    ELSE LET r == match_loop(v, i, findall(patterns(v)[i + 1], txt), 1)
         IN  IF r.none THEN pattern_loop(v, i + 1, txt) ELSE r

extract_issue_date_from_text(v, txt) == pattern_loop(v, 0, txt)

-----------------------------------------------------------------------------
(* More Python string helpers                                              *)

\* str.replace(old, new): every non-overlapping occurrence, left to right
RECURSIVE replace(_, _, _)
replace(s, old, new) ==
    IF Len(s) < Len(old) THEN s
    ELSE IF SubSeq(s, 1, Len(old)) = old
    THEN new \o replace(SubSeq(s, Len(old) + 1, Len(s)), old, new)
    ELSE << s[1] >> \o replace(Tail(s), old, new)

\* str.strip(): leading and trailing whitespace removed
RECURSIVE lstrip(_), rstrip(_)
lstrip(s) == IF s # << >> /\ s[1] \in WS THEN lstrip(Tail(s)) ELSE s
rstrip(s) == IF s # << >> /\ s[Len(s)] \in WS THEN rstrip(SubSeq(s, 1, Len(s) - 1)) ELSE s
strip(s) == rstrip(lstrip(s))

\* s[:n]
prefix(s, n) == SubSeq(s, 1, IF Len(s) < n THEN Len(s) ELSE n)

\* sep.join(list)
RECURSIVE join(_, _)
join(sep, l) ==
    IF l = << >> THEN << >>
    ELSE IF Len(l) = 1 THEN l[1]
    ELSE l[1] \o sep \o join(sep, Tail(l))

\* s.split('\n')
RECURSIVE split_acc(_, _, _)
split_acc(s, i, cur) ==
    IF i > Len(s) THEN << cur >>
    ELSE IF s[i] = "\n" THEN << cur >> \o split_acc(s, i + 1, << >>)
    ELSE split_acc(s, i + 1, Append(cur, s[i]))
split_lines(s) == split_acc(s, 1, << >>)

\* dict.update and dict[key] = value
update(d, e) == [ k \in DOMAIN d \cup DOMAIN e |-> IF k \in DOMAIN e THEN e[k] ELSE d[k] ]
setitem(d, key, val) == [ k \in DOMAIN d \cup { key } |-> IF k = key THEN val ELSE d[k] ]

-----------------------------------------------------------------------------
(* The environment: files, the MRZ capability, the OCR capability          *)

PNG == << ".", "p", "n", "g" >>
TEMP_PNG == << "_", "t", "e", "m", "p", "_", "m", "r", "z", ".", "p", "n", "g" >>

\* image_path.replace('.png', '_temp_mrz.png')
temp_mrz_path(path) == replace(path, PNG, TEMP_PNG)

\* the image paths of the model: one with the extension .png, one without
ImagePaths == { << "a", ".", "p", "n", "g" >>, << "a", ".", "j", "p", "g" >> }

\* what read_mrz answers: None, an exception, or an MRZ object with its valid
\* flag, with or without the attribute mrz_code
MrzNone == [ kind |-> "none", valid |-> FALSE, has_code |-> FALSE ]
MrzAnswers ==
    { MrzNone,
      [ kind |-> "raise", valid |-> FALSE, has_code |-> FALSE ],
      [ kind |-> "mrz", valid |-> TRUE, has_code |-> TRUE ],
      [ kind |-> "mrz", valid |-> FALSE, has_code |-> TRUE ],
      [ kind |-> "mrz", valid |-> TRUE, has_code |-> FALSE ] }

\* mrz.mrz_code and mrz.to_dict() of the MRZ object of the model
mrz_code == << "P", "<", "G", "B", "R", "\n", "1", "2", "3", "\n" >>
mrz_data == [ type |-> "P", country |-> "GBR", surname |-> "DOE", names |-> "JO",
              number |-> "123", nationality |-> "GBR", date_of_birth |-> "850101",
              sex |-> "F", expiration_date |-> "300101" ]
get(d, key, default) == IF key \in DOMAIN d THEN d[key] ELSE default

\* mutant of exists: every path is taken to exist
exists_always(path, f) == TRUE

\* os.path.exists(path)
exists(path, f) == path \in DOMAIN f

\* what the file at path holds
file_content(f, path) == IF path \in DOMAIN f THEN f[path] ELSE "missing"

\* one entry of the log of read_mrz invocations
mrz_call(path, f, a) == [ path |-> path, content |-> file_content(f, path), answer |-> a ]

\* one entry of the log of Image.open invocations
image_open(path, f, ok) == [ path |-> path, content |-> file_content(f, path), ok |-> ok ]

fs_add(f, path, content) ==
    [ q \in DOMAIN f \cup { path } |-> IF q = path THEN content ELSE f[q] ]
fs_del(f, path) == [ q \in DOMAIN f \ { path } |-> f[q] ]
NoFiles == [ q \in {} |-> "orig" ]

\* what pytesseract.image_to_string answers: an exception or a text
T_EMPTY     == << >>
T_BILINGUAL == << " ","0","3"," ","S","E","P"," ","/","S","E","P","T"," ","2","2","\n" >>
T_PLAIN     == << "0","1"," ","J","A","N"," ","2","1" >>
T_DAYMONTH  == << "0","3"," ","S","E","P" >>
T_YEAR      == << "2","2" >>
T_GFRAG     == << "G","s","s","e","r","y","s","e","r","r","2","0" >>
OcrTexts == { T_EMPTY, T_BILINGUAL, T_PLAIN, T_DAYMONTH, T_YEAR, T_GFRAG }
OcrAnswers == { [ raise |-> TRUE, text |-> << >> ] }
              \cup { [ raise |-> FALSE, text |-> t ] : t \in OcrTexts }

Variants == { "basic", "full", "pure", "simplified" }

\* no earlier run on this path
NoRun == [ ran |-> FALSE, result |-> << >>, printed |-> 0, exit_code |-> -1,
           mrz_calls |-> << >>, ocr_calls |-> << >>, image_opens |-> << >> ]

\* the answers a capability can give at its n-th invocation of a run: in a
\* second run, the answer it gave at the n-th invocation of the first run;
\* Image.open raises when the file does not exist
mrz_answers(n) ==
    IF n <= Len(first_run.mrz_calls) THEN { first_run.mrz_calls[n].answer }
    ELSE MrzAnswers
ocr_answers(n) ==
    IF n <= Len(first_run.ocr_calls) THEN { first_run.ocr_calls[n] }
    ELSE OcrAnswers
open_answers(path, f, n) ==
    IF ~(path \in DOMAIN f) THEN { FALSE }
    ELSE IF n <= Len(first_run.image_opens) THEN { first_run.image_opens[n].ok }
    ELSE BOOLEAN

\* the three OCR configurations of the whole-image mode (--psm 6, 8, 7) and
\* the three regions of the region mode, in iteration order
configs == << "psm6", "psm8", "psm7" >>
regions == << "upper_middle", "left_side", "right_side" >>

-----------------------------------------------------------------------------
(* The result dict                                                         *)

EmptyDict == << >>
EmptyList == << >>

\* confidence is kept in hundredths: 95 is 0.95, 75 is 0.75, 0 is 0.0
initial_result(v) ==
    CASE v = "full" ->
           [ success |-> FALSE, confidence |-> 0, valid |-> FALSE, raw_text |-> << >>,
             extracted_data |-> EmptyDict, issue_date |-> None,
             full_text_ocr |-> << >>, mrz_lines |-> EmptyList ]
      [] v = "pure" ->
           [ success |-> FALSE, confidence |-> 0, valid |-> FALSE, raw_text |-> << >>,
             extracted_data |-> EmptyDict, issue_date |-> None,
             issue_date_candidates |-> EmptyList,
             extraction_method |-> "pure_passporteye", mrz_lines |-> EmptyList ]
      [] v = "simplified" ->
           [ success |-> FALSE, confidence |-> 0, valid |-> FALSE, raw_text |-> << >>,
             extracted_data |-> EmptyDict, issue_date |-> None,
             extraction_method |-> "simplified_hybrid", mrz_lines |-> EmptyList ]

\* the "extracted_data" built from mrz.to_dict()
extracted_data(d) ==
    [ documentType |-> get(d, "type", ""), issuingCountry |-> get(d, "country", ""),
      surname |-> get(d, "surname", ""), givenNames |-> get(d, "names", ""),
      passportNumber |-> get(d, "number", ""), nationality |-> get(d, "nationality", ""),
      dateOfBirth |-> get(d, "date_of_birth", ""), gender |-> get(d, "sex", ""),
      expiryDate |-> get(d, "expiration_date", ""),
      personalNumber |-> get(d, "personal_number", "") ]

\* mutant of merge_mrz: the confidence does not look at mrz.valid
merge_mrz_flat(res, m) ==
    IF m.kind = "mrz"
    THEN LET upd == update(res,
                      [ success |-> TRUE,
                        confidence |-> 95,
                        valid |-> m.valid,
                        raw_text |-> IF m.has_code THEN mrz_code ELSE << >>,
                        extracted_data |-> extracted_data(mrz_data) ])
         IN  IF m.has_code
             THEN setitem(upd, "mrz_lines", split_lines(strip(mrz_code)))
             ELSE upd
    ELSE res

\* "if mrz is not None": result.update({...}) and result["mrz_lines"]
merge_mrz(res, m) ==
    IF m.kind = "mrz"
    THEN LET upd == update(res,
                      [ success |-> TRUE,
                        confidence |-> IF m.valid THEN 95 ELSE 75,
                        valid |-> m.valid,
                        raw_text |-> IF m.has_code THEN mrz_code ELSE << >>,
                        extracted_data |-> extracted_data(mrz_data) ])
         IN  IF m.has_code
             THEN setitem(upd, "mrz_lines", split_lines(strip(mrz_code)))
             ELSE upd
    ELSE res

\* the dict returned by extract_mrz_with_passporteye for an MRZ object
basic_result(m) ==
    LET r == [ success |-> TRUE,
               confidence |-> IF m.valid THEN 95 ELSE 75,
               valid |-> m.valid,
               raw_text |-> IF m.has_code THEN mrz_code ELSE << >>,
               extracted_data |->
                   setitem(extracted_data(mrz_data), "checkDigits",
                       [ number |-> get(mrz_data, "check_number", ""),
                         dateOfBirth |-> get(mrz_data, "check_date_of_birth", ""),
                         expiryDate |-> get(mrz_data, "check_expiration_date", ""),
                         personalNumber |-> get(mrz_data, "check_personal_number", ""),
                         composite |-> get(mrz_data, "check_composite", "") ]),
               validation |-> [ valid |-> m.valid, errors |-> EmptyList ] ]
    IN  IF m.has_code THEN setitem(r, "mrz_lines", split_lines(strip(mrz_code))) ELSE r

\* the dict returned when no MRZ is found (basic extractor)
no_mrz_result ==
    [ success |-> FALSE, error |-> "No MRZ found in image", confidence |-> 0 ]

\* the dict printed by "except ImportError"
import_error_result == [ success |-> FALSE, error |-> "Required library not found" ]

\* the dict returned by the outer "except Exception"
failed_result(v) ==
    CASE v = "basic" ->
           [ success |-> FALSE, error |-> "PassportEye extraction failed", confidence |-> 0 ]
      [] v = "full" ->
           [ success |-> FALSE, error |-> "Full passport extraction failed",
             confidence |-> 0 ]
      [] v = "pure" ->
           [ success |-> FALSE, error |-> "Pure PassportEye extraction failed",
             confidence |-> 0, extraction_method |-> "pure_passporteye" ]
      [] v = "simplified" ->
           [ success |-> FALSE, error |-> "Simplified extraction failed",
             confidence |-> 0, extraction_method |-> "simplified_hybrid" ]

\* result["issue_date"] = d; result["extracted_data"]["issueDate"] = d
set_issue_date(res, d) ==
    setitem(setitem(res, "issue_date", d),
            "extracted_data", setitem(res["extracted_data"], "issueDate", d))

\* mutant of best_candidate: the preferred region is left_side
best_candidate_left(cands) ==
    LET ls == { i \in DOMAIN cands : cands[i].region = "left_side" }
    IN  IF ls # {} THEN cands[CHOOSE i \in ls : \A j \in ls : i <= j] ELSE cands[1]

\* "Prefer dates from upper_middle region, then others"
best_candidate(cands) ==
    LET um == { i \in DOMAIN cands : cands[i].region = "upper_middle" }
    IN  IF um # {} THEN cands[CHOOSE i \in um : \A j \in um : i <= j] ELSE cands[1]

\* the selection at the end of extract_pure_passport_data
arbitrate(res, cands) ==
    LET r1 == setitem(res, "issue_date_candidates", cands)
    IN  IF cands # << >> THEN set_issue_date(r1, best_candidate(cands).date) ELSE r1

\* the entry appended to issue_dates for one region
region_info(name, txt) ==
    [ region |-> name, text |-> prefix(strip(txt), 200),
      date |-> extract_issue_date_from_text("pure", txt) ]

\* the OCR text combination and date extraction of the whole-image mode
extract_from_full_texts(v, res, texts) ==
    LET combined == join(<< "\n" >>, texts)
        r1 == IF v = "full" THEN setitem(res, "full_text_ocr", combined) ELSE res
        d == extract_issue_date_from_text(v, combined)
    IN  IF ~d.none /\ d.s # << >> THEN set_issue_date(r1, d) ELSE r1

-----------------------------------------------------------------------------
(* One run of an extractor: main() and the extraction function             *)

Init ==
    /\ variant \in Variants
    /\ argc \in { 1, 2, 3 }
    /\ image_path \in ImagePaths
    /\ fs \in { NoFiles, fs_add(NoFiles, image_path, "orig") }
    /\ libs \in BOOLEAN
    /\ pc = "import"
    /\ mrz = MrzNone
    /\ result = EmptyDict
    /\ mrz_calls = << >>
    /\ image_opens = << >>
    /\ fs_writes = {}
    /\ fs_removes = {}
    /\ ocr_calls = << >>
    /\ idx = 0
    /\ full_texts = EmptyList
    /\ issue_dates = EmptyList
    /\ printed = 0
    /\ exit_code = -1
    /\ first_run = NoRun
    /\ text = << >>
    /\ date = None

\* the imports at the top of the file: the full, pure and simplified
\* extractors catch ImportError, print a JSON document and exit 1; the basic
\* extractor does not catch it and the interpreter ends with status 1
Import ==
    /\ pc = "import"
    /\ IF libs
       THEN /\ pc' = "main"
            /\ UNCHANGED << result, printed, exit_code >>
       ELSE IF variant = "basic"
       THEN /\ pc' = "exited"
            /\ exit_code' = 1
            /\ UNCHANGED << result, printed >>
       ELSE /\ result' = import_error_result
            /\ printed' = printed + 1
            /\ exit_code' = 1
            /\ pc' = "exited"
    /\ UNCHANGED << variant, argc, image_path, libs, first_run, fs, mrz, mrz_calls,
                    image_opens, fs_writes, fs_removes, ocr_calls, idx, full_texts,
                    issue_dates, text, date >>

\* mutant of wrong_argc: only a missing argument is a usage error
wrong_argc_missing(n) == n < 2

\* "if len(sys.argv) != 2"
wrong_argc(n) == n # 2

\* main(): the argument count and os.path.exists checks
Main ==
    /\ pc = "main"
    /\ IF wrong_argc(argc)
       THEN /\ result' = [ success |-> FALSE, error |-> "Usage" ]
            /\ printed' = printed + 1
            /\ exit_code' = 1
            /\ pc' = "exited"
       ELSE IF ~exists(image_path, fs)
       THEN /\ result' = [ success |-> FALSE, error |-> "Image file not found" ]
            /\ printed' = printed + 1
            /\ exit_code' = 1
            /\ pc' = "exited"
       ELSE /\ pc' = "read_mrz"
            /\ UNCHANGED << result, printed, exit_code >>
    /\ UNCHANGED << variant, argc, image_path, libs, first_run, fs, mrz, mrz_calls,
                    image_opens, fs_writes, fs_removes, ocr_calls, idx, full_texts,
                    issue_dates, text, date >>

\* mutant of needs_fallback: the test "mrz is None" is dropped
needs_fallback_always(v, a) == v \in { "pure", "simplified" }

\* "if mrz is None:" after the full-image read, in the variants that have the fallback
needs_fallback(v, a) == a.kind = "none" /\ v \in { "pure", "simplified" }

\* mrz = read_mrz(image_path), and what follows it directly
ReadMrzFull ==
    /\ pc = "read_mrz"
    /\ \E a \in mrz_answers(Len(mrz_calls) + 1) :
        /\ mrz_calls' = Append(mrz_calls, mrz_call(image_path, fs, a))
        /\ IF a.kind = "raise"
           THEN /\ result' = failed_result(variant)
                /\ pc' = "print"
                /\ mrz' = mrz
           ELSE /\ mrz' = a
                /\ IF variant = "basic"
                   THEN /\ result' = IF a.kind = "none" THEN no_mrz_result
                                     ELSE basic_result(a)
                        /\ pc' = "print"
                   ELSE /\ result' = result
                        /\ pc' = IF needs_fallback(variant, a)
                                 THEN "fallback_crop" ELSE "merge"
    /\ UNCHANGED << variant, argc, image_path, libs, first_run, fs, image_opens,
                    fs_writes, fs_removes, ocr_calls, idx, full_texts, issue_dates,
                    printed, exit_code, text, date >>

\* Image.open, crop of the bottom 25% and mrz_region.save(temp_mrz_path); an
\* exception of any of the three leaves no file and is swallowed
FallbackCrop ==
    /\ pc = "fallback_crop"
    /\ \E ok \in open_answers(image_path, fs, Len(image_opens) + 1) :
        /\ image_opens' = Append(image_opens, image_open(image_path, fs, ok))
        /\ IF ok
           THEN /\ fs' = fs_add(fs, temp_mrz_path(image_path), "crop")
                /\ fs_writes' = fs_writes \cup { temp_mrz_path(image_path) }
                /\ pc' = "fallback_read"
           ELSE /\ pc' = "merge"
                /\ UNCHANGED << fs, fs_writes >>
    /\ UNCHANGED << variant, argc, image_path, libs, first_run, mrz, result, mrz_calls,
                    fs_removes, ocr_calls, idx, full_texts, issue_dates, printed,
                    exit_code, text, date >>

\* mrz = read_mrz(temp_mrz_path) and the clean-up after it; an exception of
\* read_mrz goes straight to "except: pass"
FallbackRead ==
    /\ pc = "fallback_read"
    /\ \E a \in mrz_answers(Len(mrz_calls) + 1) :
        /\ mrz_calls' = Append(mrz_calls, mrz_call(temp_mrz_path(image_path), fs, a))
        /\ IF a.kind = "raise"
           THEN UNCHANGED << mrz, fs, fs_removes >>
           ELSE /\ mrz' = a
                /\ IF exists(temp_mrz_path(image_path), fs)
                   THEN /\ fs' = fs_del(fs, temp_mrz_path(image_path))
                        /\ fs_removes' = fs_removes \cup { temp_mrz_path(image_path) }
                   ELSE UNCHANGED << fs, fs_removes >>
    /\ pc' = "merge"
    /\ UNCHANGED << variant, argc, image_path, libs, first_run, result, image_opens,
                    fs_writes, ocr_calls, idx, full_texts, issue_dates, printed,
                    exit_code, text, date >>

\* the result dict and the MRZ fields merged into it
Merge ==
    /\ pc = "merge"
    /\ result' = merge_mrz(initial_result(variant), mrz)
    /\ pc' = IF variant = "pure" THEN "regions_open" ELSE "ocr_open"
    /\ UNCHANGED << variant, argc, image_path, libs, first_run, fs, mrz, mrz_calls,
                    image_opens, fs_writes, fs_removes, ocr_calls, idx, full_texts,
                    issue_dates, printed, exit_code, text, date >>

\* extract_issue_date_from_image_regions: Image.open(image_path)
RegionsOpen ==
    /\ pc = "regions_open"
    /\ issue_dates' = EmptyList
    /\ \E ok \in open_answers(image_path, fs, Len(image_opens) + 1) :
        /\ image_opens' = Append(image_opens, image_open(image_path, fs, ok))
        /\ IF ok THEN pc' = "region" /\ idx' = 1
           ELSE pc' = "arbitrate" /\ idx' = idx
    /\ UNCHANGED << variant, argc, image_path, libs, first_run, fs, mrz, result,
                    mrz_calls, fs_writes, fs_removes, ocr_calls, full_texts, printed,
                    exit_code, text, date >>

\* one iteration of "for region_name, ... in regions.items()"
RegionOcr ==
    /\ pc = "region"
    /\ \E a \in ocr_answers(Len(ocr_calls) + 1) :
        /\ ocr_calls' = Append(ocr_calls, a)
        /\ issue_dates' = IF a.raise THEN issue_dates
                          ELSE Append(issue_dates, region_info(regions[idx], a.text))
    /\ IF idx < Len(regions)
       THEN idx' = idx + 1 /\ pc' = pc
       ELSE idx' = idx /\ pc' = "arbitrate"
    /\ UNCHANGED << variant, argc, image_path, libs, first_run, fs, mrz, result,
                    mrz_calls, image_opens, fs_writes, fs_removes, full_texts, printed,
                    exit_code, text, date >>

\* "Select the best issue date candidate"
Arbitrate ==
    /\ pc = "arbitrate"
    /\ result' = arbitrate(result, issue_dates)
    /\ pc' = "print"
    /\ UNCHANGED << variant, argc, image_path, libs, first_run, fs, mrz, mrz_calls,
                    image_opens, fs_writes, fs_removes, ocr_calls, idx, full_texts,
                    issue_dates, printed, exit_code, text, date >>

\* whole-image mode: Image.open(image_path); its exception becomes ocr_error
OcrOpen ==
    /\ pc = "ocr_open"
    /\ full_texts' = EmptyList
    /\ \E ok \in open_answers(image_path, fs, Len(image_opens) + 1) :
        /\ image_opens' = Append(image_opens, image_open(image_path, fs, ok))
        /\ IF ok THEN /\ pc' = "ocr_config"
                      /\ idx' = 1
                      /\ result' = result
           ELSE /\ pc' = "print"
                /\ idx' = idx
                /\ result' = setitem(result, "ocr_error", "cannot open image file")
    /\ UNCHANGED << variant, argc, image_path, libs, first_run, fs, mrz, mrz_calls,
                    fs_writes, fs_removes, ocr_calls, issue_dates, printed, exit_code,
                    text, date >>

\* one iteration of "for config in configs"
OcrConfig ==
    /\ pc = "ocr_config"
    /\ \E a \in ocr_answers(Len(ocr_calls) + 1) :
        /\ ocr_calls' = Append(ocr_calls, a)
        /\ full_texts' = IF a.raise THEN full_texts ELSE Append(full_texts, a.text)
    /\ IF idx < Len(configs)
       THEN idx' = idx + 1 /\ pc' = pc
       ELSE idx' = idx /\ pc' = "extract_date"
    /\ UNCHANGED << variant, argc, image_path, libs, first_run, fs, mrz, result,
                    mrz_calls, image_opens, fs_writes, fs_removes, issue_dates, printed,
                    exit_code, text, date >>

\* "Combine all OCR attempts" and "Try to extract issue date"
ExtractDate ==
    /\ pc = "extract_date"
    /\ result' = extract_from_full_texts(variant, result, full_texts)
    /\ pc' = "print"
    /\ UNCHANGED << variant, argc, image_path, libs, first_run, fs, mrz, mrz_calls,
                    image_opens, fs_writes, fs_removes, ocr_calls, idx, full_texts,
                    issue_dates, printed, exit_code, text, date >>

\* print(json.dumps(result, indent=2)) and the normal end of main()
PrintResult ==
    /\ pc = "print"
    /\ printed' = printed + 1
    /\ exit_code' = 0
    /\ pc' = "exited"
    /\ UNCHANGED << variant, argc, image_path, libs, first_run, fs, mrz, result,
                    mrz_calls, image_opens, fs_writes, fs_removes, ocr_calls, idx,
                    full_texts, issue_dates, text, date >>

\* the same program is started once more with the same argument: the files
\* are as the first run left them, the capabilities answer as they did
Rerun ==
    /\ pc = "exited"
    /\ ~first_run.ran
    /\ first_run' = [ ran |-> TRUE, result |-> result, printed |-> printed,
                      exit_code |-> exit_code, mrz_calls |-> mrz_calls,
                      ocr_calls |-> ocr_calls, image_opens |-> image_opens ]
    /\ pc' = "import"
    /\ mrz' = MrzNone
    /\ result' = EmptyDict
    /\ mrz_calls' = << >>
    /\ image_opens' = << >>
    /\ fs_writes' = {}
    /\ fs_removes' = {}
    /\ ocr_calls' = << >>
    /\ idx' = 0
    /\ full_texts' = EmptyList
    /\ issue_dates' = EmptyList
    /\ printed' = 0
    /\ exit_code' = -1
    /\ UNCHANGED << variant, argc, image_path, libs, fs, text, date >>

Next ==
    \/ Import
    \/ Main
    \/ ReadMrzFull
    \/ FallbackCrop
    \/ FallbackRead
    \/ Merge
    \/ RegionsOpen
    \/ RegionOcr
    \/ Arbitrate
    \/ OcrOpen
    \/ OcrConfig
    \/ ExtractDate
    \/ PrintResult
    \/ Rerun

Spec == Init /\ [][Next]_vars

-----------------------------------------------------------------------------
(* extract_issue_date_from_text applied to one text                        *)

MaxPieces == 2

two_digits(n) == << DigitChars[(n \div 10) + 1], DigitChars[(n % 10) + 1] >>

\* the shapes of issue-date text, by day, month and year token
plain_text(d, m, y) == d \o << " " >> \o m \o << " " >> \o y
labelled_text(d, m, y) == << "D","a","t","e"," ","o","f"," ","i","s","s","u","e"," " >> \o plain_text(d, m, y)
bilingual_text(d, m, y) == d \o << " " >> \o m \o << " ","/","S","E","P","T"," " >> \o y
bilingual_spaced_text(d, m, y) == d \o << " " >> \o m \o << " ","/"," ","S","E","P","T"," " >> \o y
gfrag_text(y) == << "G","s","s","e","r","y","s","e","r","r" >> \o y
gfrag_short_text(y) == << "g","E","R","e","r" >> \o y
ofrag_seet_text(d1, y) == << "O" >> \o d1 \o << "S","e","r","s","s","e","e","T" >> \o y
ofrag_sep_text(d1, y) == << "O" >> \o d1 \o << " ","S","E","R"," ","/","S","E","P","T"," " >> \o y
ofrag_seer_text(d1, y) == << "O" >> \o d1 \o << "S","e","r","f","s","e","e","r" >> \o y

MonthOrder == << <<"J","A","N">>, <<"F","E","B">>, <<"M","A","R">>, <<"A","P","R">>,
                 <<"M","A","Y">>, <<"J","U","N">>, <<"J","U","L">>, <<"A","U","G">>,
                 <<"S","E","P">>, <<"O","C","T">>, <<"N","O","V">>, <<"D","E","C">> >>
MonthTokens == Range(MonthOrder) \cup { <<"X","Y","Z">>, <<"S","E","P","T">> }
DayTokens == { <<"1">>, <<"0","3">>, <<"3","1">> }
YearTokens == { <<"2","2">>, <<"8","5">>, <<"4","5">>, <<"2","0","2","2">>,
                <<"1","9","8","5">>, <<"2","0","2">> }

\* every shape with every two-digit year
YearTexts ==
    UNION { { plain_text(<<"0","1">>, <<"J","A","N">>, two_digits(n)),
              labelled_text(<<"0","1">>, <<"J","A","N">>, two_digits(n)),
              bilingual_text(<<"0","3">>, <<"S","E","P">>, two_digits(n)),
              bilingual_spaced_text(<<"0","3">>, <<"S","E","P">>, two_digits(n)),
              gfrag_text(two_digits(n)),
              gfrag_short_text(two_digits(n)),
              ofrag_seet_text(<<"3">>, two_digits(n)),
              ofrag_sep_text(<<"3">>, two_digits(n)),
              ofrag_seer_text(<<"3">>, two_digits(n)) } : n \in 0..99 }

\* the full-standard shapes with every day, month and year token
StandardTexts ==
    UNION { { plain_text(d, m, y), labelled_text(d, m, y), bilingual_text(d, m, y) } :
            d \in DayTokens, m \in MonthTokens, y \in YearTokens }

\* texts composed of up to MaxPieces pieces, separated by a space or a newline
Pieces == { << "0","1"," ","J","A","N"," ","2","1" >>,
            << "D","a","t","e"," ","o","f"," ","i","s","s","u","e"," ","0","3"," ","S","E","P"," ","2","0","2","2" >>,
            << "0","3"," ","S","E","P"," ","/","S","E","P","T"," ","2","2" >>,
            << "G","s","s","e","r","y","s","e","r","r","2","2" >>,
            << "O","3","S","e","r","s","s","e","e","T","3","2" >>,
            << "0","1"," ","X","Y","Z"," ","2","2" >>,
            << "0","3"," ","S","E","P" >>,
            << "2","2" >>,
            << "O","3","S","e","r","f","s","e","e","r","3","2" >>,
            << "0","5"," ","M","A","Y"," ","2","0" >> }
RECURSIVE Composed(_)
Composed(n) ==
    IF n = 1 THEN { << sep, p >> : sep \in { << " " >>, << "\n" >> }, p \in Pieces }
    ELSE Composed(n - 1)
         \cup { << c[1], c[2] \o c[1] \o p >> : c \in Composed(n - 1), p \in Pieces }
ComposedTexts == { c[2] : c \in Composed(MaxPieces) }

Texts == YearTexts \cup StandardTexts \cup ComposedTexts

InitText ==
    /\ variant \in { "full", "pure", "simplified" }
    /\ text \in Texts
    /\ date = None
    /\ pc = "text"
    /\ argc = 2
    /\ image_path = << >>
    /\ fs = NoFiles
    /\ mrz = MrzNone
    /\ result = EmptyDict
    /\ mrz_calls = << >>
    /\ fs_writes = {}
    /\ fs_removes = {}
    /\ ocr_calls = << >>
    /\ idx = 0
    /\ full_texts = EmptyList
    /\ issue_dates = EmptyList
    /\ printed = 0
    /\ exit_code = -1
    /\ libs = TRUE
    /\ image_opens = << >>
    /\ first_run = NoRun

\* issue_date = extract_issue_date_from_text(text)
ApplyExtract ==
    /\ pc = "text"
    /\ date' = extract_issue_date_from_text(variant, text)
    /\ pc' = "text_done"
    /\ UNCHANGED << variant, argc, image_path, libs, first_run, fs, mrz, result,
                    mrz_calls, image_opens, fs_writes, fs_removes, ocr_calls, idx,
                    full_texts, issue_dates, printed, exit_code, text >>

NextText == ApplyExtract

SpecText == InitText /\ [][NextText]_vars

-----------------------------------------------------------------------------
(* Properties                                                              *)

\* the extraction function has returned
Returned == pc \in { "print", "exited" } /\ mrz_calls # << >>
HasFallback == variant \in { "pure", "simplified" }
TempPath == temp_mrz_path(image_path)
FirstAnswer == mrz_calls[1].answer
LastAnswer == mrz_calls[Len(mrz_calls)].answer

\* C1: in the pure and simplified extractors, a crop file that the fallback
\* wrote no longer exists when the extraction function returns, whether the
\* retried read returned a record, returned None or raised.
C1_CropDeletedOnReturn ==
    (HasFallback /\ Returned /\ TempPath \in fs_writes) => TempPath \notin DOMAIN fs

\* C2 as claimed: after a full-image read that returned None, read_mrz is
\* invoked exactly once more, on the crop; after one that returned a record it
\* is not invoked again and no crop file is written.
C2_ExactlyOneRetry ==
    (HasFallback /\ Returned) =>
        /\ FirstAnswer.kind = "none" =>
              /\ Len(mrz_calls) = 2
              /\ mrz_calls[2].path = TempPath
              /\ mrz_calls[2].content = "crop"
        /\ FirstAnswer.kind = "mrz" => (Len(mrz_calls) = 1 /\ fs_writes = {})

\* C2 as amended: after a full-image read that returned None, read_mrz is
\* invoked exactly once more, on the crop file, when the crop file was written,
\* and not at all when opening, cropping or saving raised; after a full-image
\* read that returned a record or raised it is not invoked again and no crop
\* file is written.
C2_OneRetryWhenCropWritten ==
    (HasFallback /\ Returned) =>
        /\ (FirstAnswer.kind = "none" /\ fs_writes # {}) =>
              /\ Len(mrz_calls) = 2
              /\ mrz_calls[2].path = TempPath
              /\ mrz_calls[2].content = "crop"
        /\ (FirstAnswer.kind = "none" /\ fs_writes = {}) => Len(mrz_calls) = 1
        /\ FirstAnswer.kind # "none" => (Len(mrz_calls) = 1 /\ fs_writes = {})

C2_Witness ==
    /\ HasFallback /\ pc = "exited"
    /\ Len(mrz_calls) = 2 /\ FirstAnswer.kind = "none"
    /\ mrz_calls[2].path = TempPath /\ fs_writes = { TempPath }

\* the date the text of region i (in iteration order) holds for the pure
\* extractor; None when its OCR raised or the region was never sampled
RegionDate(i) ==
    IF i <= Len(ocr_calls) /\ ~ocr_calls[i].raise
    THEN extract_issue_date_from_text("pure", ocr_calls[i].text)
    ELSE None
RegionsSampled == variant = "pure" /\ Returned /\ Len(ocr_calls) = Len(regions)

\* C3: in the pure extractor, when the upper_middle region yields a date the
\* final issue_date is that date, whatever left_side and right_side yield.
C3_UpperMiddleWins ==
    (RegionsSampled /\ ~RegionDate(1).none) => result["issue_date"] = RegionDate(1)

C3_Witness ==
    /\ RegionsSampled /\ pc = "exited"
    /\ ~RegionDate(1).none /\ ~RegionDate(2).none /\ ~RegionDate(3).none
    /\ RegionDate(2) # RegionDate(1) /\ RegionDate(3) # RegionDate(1)
    /\ result["issue_date"] = RegionDate(1)

\* C4: in the pure extractor, when upper_middle yields no date (or its OCR
\* raises) and another region yields one, the final issue_date is the date of
\* the first date-bearing region, left_side before right_side.
C4_FirstDatedRegionWins ==
    (RegionsSampled /\ RegionDate(1).none /\ (~RegionDate(2).none \/ ~RegionDate(3).none))
        => result["issue_date"] = IF ~RegionDate(2).none THEN RegionDate(2)
                                  ELSE RegionDate(3)

\* the windowed year of the specification: 00..50 -> 20yy, 51..99 -> 19yy
Century(n) == IF n <= 50 THEN << "2", "0" >> ELSE << "1", "9" >>
YearOf(y) == IF Len(y) = 2 THEN Century(IntOf(y)) \o y ELSE y
MonthNumber(m) == two_digits(CHOOSE i \in DOMAIN MonthOrder : MonthOrder[i] = m)

\* the texts of every shape that the catalog of variant v has a pattern for
ShapeTexts(v, y) ==
    { plain_text(<<"0","1">>, <<"J","A","N">>, y),
      labelled_text(<<"0","1">>, <<"J","A","N">>, y),
      bilingual_text(<<"0","3">>, <<"S","E","P">>, y),
      bilingual_spaced_text(<<"0","3">>, <<"S","E","P">>, y),
      gfrag_text(y), gfrag_short_text(y), ofrag_seet_text(<<"3">>, y),
      ofrag_sep_text(<<"3">>, y) }
    \cup (IF v = "full" THEN { ofrag_seer_text(<<"3">>, y) } ELSE {})

\* C5: in every variant and for every pattern of its catalog, a captured
\* two-digit year yy becomes 20yy for 00..50 and 19yy for 51..99.
C5_UniformWindowing ==
    pc = "text_done" =>
        \A n \in 0..99 :
            text \in ShapeTexts(variant, two_digits(n)) =>
                /\ ~date.none
                /\ Len(date.s) >= 4
                /\ SubSeq(date.s, 1, 4) = Century(n) \o two_digits(n)

\* C6: "DD MMM YY" and "Date of issue DD MMM YYYY", MMM an English month
\* abbreviation, give the ISO date of day DD, the number of MMM and the year
\* YYYY or the windowed YY, in the full, pure and simplified extractors.
C6_CleanStandardDates ==
    pc = "text_done" =>
        \A d \in { x \in DayTokens : Len(x) = 2 }, m \in Range(MonthOrder),
           y \in YearTokens :
            (\/ (Len(y) = 2 /\ text = plain_text(d, m, y))
             \/ (Len(y) = 4 /\ text = labelled_text(d, m, y)))
                => date = Str(iso(YearOf(y), MonthNumber(m), d))

\* C7: a text holding the clean match "01 JAN 21" and a fragmented match
\* ("Gsseryserr22" or "O3SersseeT32"), in either order, gives the date of the
\* clean match, in the full, pure and simplified extractors.
C7_CleanBeatsFragmented ==
    pc = "text_done" =>
        \A frag \in { gfrag_text(<<"2","2">>), ofrag_seet_text(<<"3">>, <<"3","2">>) },
           sep \in { << " " >>, << "\n" >> } :
            LET clean == plain_text(<<"0","1">>, <<"J","A","N">>, <<"2","1">>)
            IN  text \in { clean \o sep \o frag, frag \o sep \o clean }
                    => date = Str(<< "2","0","2","1","-","0","1","-","0","1" >>)

\* the only pattern of variant v's catalog that matches txt is the
\* "G..er..er..NN" shape
OnlyGfragMatches(v, txt) ==
    /\ findall(re_gfrag, txt) # << >>
    /\ \A i \in DOMAIN patterns(v) :
          patterns(v)[i] # re_gfrag => findall(patterns(v)[i], txt) = << >>

\* C8: a text whose only catalog match is the "G..er..er..NN" shape gives
\* <windowed NN>-09-03 (NN of the first match); "Gsseryserr22" gives 2022-09-03.
C8_YearOnlyFragment ==
    pc = "text_done" =>
        /\ OnlyGfragMatches(variant, text) =>
              date = Str(YearOf(whole(findall(re_gfrag, text)[1]))
                         \o << "-", "0", "9", "-", "0", "3" >>)
        /\ text = << "G","s","s","e","r","y","s","e","r","r","2","2" >> => date = Str(<< "2","0","2","2","-","0","9","-","0","3" >>)

C8_Witness ==
    /\ pc = "text_done" /\ variant = "pure"
    /\ text = gfrag_text(<<"4","5">>)
    /\ OnlyGfragMatches(variant, text)
    /\ date = Str(<< "2","0","4","5","-","0","9","-","0","3" >>)

\* a string of the form YYYY-MM-DD with a month in 01..12
WellFormedDate(s) ==
    /\ Len(s) = 10
    /\ s[5] = "-" /\ s[8] = "-"
    /\ \A i \in { 1, 2, 3, 4, 6, 7, 9, 10 } : s[i] \in D
    /\ IntOf(SubSeq(s, 6, 7)) \in 1..12

\* C9: every date the program reports is None or a string YYYY-MM-DD with four
\* year digits, a month in 01..12 and a two-digit day, for every input text.
C9_IsoDateOrNone == pc = "text_done" => (date.none \/ WellFormedDate(date.s))

\* C10: confidence is 0.95 exactly when an MRZ record was recovered and its
\* valid flag is true, 0.75 exactly when one was recovered and the flag is
\* false, 0.0 exactly when none was recovered; success is true iff a record was
\* recovered and valid is the capability's flag.
C10_MergeRule ==
    Returned =>
        LET recovered == LastAnswer.kind = "mrz"
        IN  /\ result["confidence"] = 95 <=> (recovered /\ LastAnswer.valid)
            /\ result["confidence"] = 75 <=> (recovered /\ ~LastAnswer.valid)
            /\ result["confidence"] = 0 <=> ~recovered
            /\ result["success"] <=> recovered
            /\ recovered => result["valid"] = LastAnswer.valid

C10_Witness ==
    /\ pc = "exited" /\ Len(mrz_calls) = 2
    /\ LastAnswer.kind = "mrz" /\ ~LastAnswer.valid
    /\ result["confidence"] = 75 /\ result["success"] /\ ~result["valid"]

-----------------------------------------------------------------------------
(* Date sampling, repeated runs, diagnostics and the process interface     *)

\* the run got past the MRZ stage into date sampling and has returned
SamplingReached == Returned /\ variant # "basic" /\ FirstAnswer.kind # "raise"
\* the Image.open of the date sampling, the last one of a run
SamplingOpen == image_opens[Len(image_opens)]
\* the texts of the OCR invocations that did not raise, in order
TextOf(a) == a.text
Raised(a) == a.raise
NotRaised(a) == ~a.raise
SampledTexts ==
    LET ok == SelectSeq(ocr_calls, NotRaised) IN [ i \in DOMAIN ok |-> TextOf(ok[i]) ]
\* the same invocations with the empty text in place of each exception
TextsIfEmpty == [ i \in DOMAIN ocr_calls |->
                    IF Raised(ocr_calls[i]) THEN << >> ELSE TextOf(ocr_calls[i]) ]
NullIfNone(d) == IF d.none \/ d.s = << >> THEN None ELSE d

\* C11: in the pure and simplified extractors, after a full-image read that
\* returned None, the date sampling works on the input image as it was given,
\* whatever the fallback did, and a date the sampled texts hold is reported.
C11_SamplingAfterFallback ==
    (HasFallback /\ Returned /\ FirstAnswer.kind = "none") =>
        /\ image_opens # << >>
        /\ SamplingOpen.path = image_path
        /\ SamplingOpen.content = "orig"
        /\ (variant = "simplified" /\ SamplingOpen.ok /\ pc = "exited") =>
               result["issue_date"] =
                   NullIfNone(extract_issue_date_from_text(variant,
                                  join(<< "\n" >>, SampledTexts)))

\* C12: a second run on the same path, with the capabilities answering as in
\* the first run, prints the same JSON document and ends with the same status.
C12_Idempotent ==
    (first_run.ran /\ pc = "exited") =>
        /\ result = first_run.result
        /\ printed = first_run.printed
        /\ exit_code = first_run.exit_code

\* C13: when every OCR invocation of a run raised, the result has the
\* top-level field ocr_error, and the MRZ part is still reported.
C13_OcrErrorSurfaced ==
    (SamplingReached /\ pc = "exited" /\ Len(ocr_calls) = Len(configs)
       /\ \A i \in DOMAIN ocr_calls : Raised(ocr_calls[i])) =>
        /\ "ocr_error" \in DOMAIN result
        /\ result["success"] <=> (LastAnswer.kind = "mrz")

\* the issue_date the run would report had each exception been the empty text
DateIfEmpty ==
    IF variant = "pure"
    THEN arbitrate(merge_mrz(initial_result(variant), mrz),
                   [ i \in DOMAIN TextsIfEmpty |->
                       region_info(regions[i], TextsIfEmpty[i]) ])["issue_date"]
    ELSE NullIfNone(extract_issue_date_from_text(variant,
                        join(<< "\n" >>, TextsIfEmpty)))

\* C14: an OCR invocation that raises does not stop the remaining ones, and
\* the reported date is the one the run reports when the failed invocation
\* gives the empty text instead.
C14_PartialOcrFailure ==
    (SamplingReached /\ pc = "exited" /\ SamplingOpen.ok) =>
        /\ Len(ocr_calls) = Len(configs)
        /\ result["issue_date"] = DateIfEmpty

\* the run ended in main's usage or file-not-found exit
UsageExit == "error" \in DOMAIN result /\ result["error"] = "Usage"
NotFoundExit == "error" \in DOMAIN result /\ result["error"] = "Image file not found"
\* the path named no file when the run started
MissingFile == NotFoundExit \/ (~libs /\ image_path \notin DOMAIN fs)

\* C15: every run prints exactly one JSON document, and its exit status is
\* non-zero only for a wrong argument count or a nonexistent file.
C15_NormalExit ==
    pc = "exited" =>
        /\ printed = 1
        /\ exit_code \in { 0, 1 }
        /\ (exit_code = 1) <=> (argc # 2 \/ MissingFile)

\* C15, amended: the same for the runs whose imports succeeded; when an
\* import fails the run exits with status 1, after one JSON document in the
\* full, pure and simplified extractors and with none in the basic one.
C15_ExitStatus ==
    pc = "exited" =>
        IF libs
        THEN /\ printed = 1
             /\ exit_code \in { 0, 1 }
             /\ (exit_code = 1) <=> (argc # 2 \/ MissingFile)
        ELSE /\ exit_code = 1
             /\ printed = IF variant = "basic" THEN 0 ELSE 1

C15_Witness ==
    /\ pc = "exited" /\ libs /\ argc = 2 /\ ~first_run.ran
    /\ variant = "simplified" /\ Len(mrz_calls) = 2
    /\ FirstAnswer.kind = "none" /\ LastAnswer.kind = "raise"
    /\ image_opens # << >> /\ ~SamplingOpen.ok
    /\ printed = 1 /\ exit_code = 0

\* C16: main, given a path that does not exist, prints a JSON error document
\* with success false and exits with status 1, and no read_mrz, Image.open,
\* OCR invocation or file write has happened by then.
C16_MissingFileExitsFirst ==
    [][ (pc = "main" /\ argc = 2 /\ image_path \notin DOMAIN fs) =>
            /\ pc' = "exited" /\ exit_code' = 1 /\ printed' = 1
            /\ DOMAIN result' = { "success", "error" } /\ ~result'["success"]
            /\ mrz_calls' = << >> /\ ocr_calls' = << >> /\ image_opens' = << >>
            /\ fs_writes' = {} /\ fs' = fs ]_vars

C16_Witness ==
    /\ pc = "exited" /\ libs /\ argc = 2 /\ image_path \notin DOMAIN fs
    /\ ~first_run.ran /\ NotFoundExit /\ exit_code = 1 /\ printed = 1
    /\ mrz_calls = << >> /\ ocr_calls = << >> /\ image_opens = << >> /\ fs_writes = {}

\* C17: the JSON document of a run that exits with status 0 has the keys
\* success, confidence, valid, raw_text, extracted_data and mrz_lines, and
\* issue_date in the variants that extract it.
C17_StableShape ==
    (pc = "exited" /\ exit_code = 0) =>
        /\ { "success", "confidence", "valid", "raw_text", "extracted_data",
             "mrz_lines" } \subseteq DOMAIN result
        /\ variant # "basic" => "issue_date" \in DOMAIN result

-----------------------------------------------------------------------------
(* The cascade: unrecognized months, iteration order, four-digit years     *)

\* the full-standard shapes whose month token is no month abbreviation
UnknownMonths == MonthTokens \ Range(MonthOrder)
UnknownMonthTexts ==
    UNION { { plain_text(d, m, y), labelled_text(d, m, y) } :
            d \in DayTokens, m \in UnknownMonths, y \in YearTokens }

\* C18: a text whose only date-like content is a full-standard shape with an
\* unrecognized month token ("01 XYZ 22", "03 SEPT 22") yields None.
C18_UnknownMonthNoDate ==
    (pc = "text_done" /\ text \in UnknownMonthTexts) => date.none

\* the matches of pattern i (Python index) in the text, and the pairs
\* << pattern, match >> whose normalization succeeds
MatchesOf(v, i, txt) == findall(patterns(v)[i + 1], txt)
Normalizing(v, txt) ==
    { ij \in UNION { { << i, j >> : j \in 1..Len(MatchesOf(v, i, txt)) } :
                     i \in 0..(Len(patterns(v)) - 1) } :
        ~on_match(v, ij[1], MatchesOf(v, ij[1], txt)[ij[2]]).none }
Before(a, b) == a[1] < b[1] \/ (a[1] = b[1] /\ a[2] <= b[2])
FirstNormalizing(v, txt) ==
    CHOOSE a \in Normalizing(v, txt) : \A b \in Normalizing(v, txt) : Before(a, b)

\* C19: the date returned is that of the first match that normalizes, in the
\* order of the pattern list first and of the text second; None is returned
\* only when no match of any pattern normalizes.
C19_CascadeOrder ==
    pc = "text_done" =>
        IF Normalizing(variant, text) = {} THEN date.none
        ELSE LET a == FirstNormalizing(variant, text)
             IN  date = on_match(variant, a[1], MatchesOf(variant, a[1], text)[a[2]])

\* a match that does not normalize is passed over for a later match of the
\* same pattern
C19_Witness ==
    /\ pc = "text_done" /\ Normalizing(variant, text) # {}
    /\ FirstNormalizing(variant, text)[2] >= 2
    /\ ~date.none

\* the full-standard shapes with a month abbreviation and a four-digit year
FourDigitYears == { y \in YearTokens : Len(y) = 4 }
FourDigitTexts(y) ==
    UNION { { plain_text(d, m, y), labelled_text(d, m, y), bilingual_text(d, m, y) } :
            d \in DayTokens, m \in Range(MonthOrder) }

\* C20: for a full-standard text with a four-digit year, the year of the
\* returned date is that year.
C20_FourDigitYearKept ==
    pc = "text_done" =>
        \A y \in FourDigitYears :
            text \in FourDigitTexts(y) =>
                ~date.none /\ Len(date.s) >= 5 /\ SubSeq(date.s, 1, 5) = y \o << "-" >>

-----------------------------------------------------------------------------
(* Region entries, the input file, and dates across OCR passes             *)

\* C21: in the pure extractor, when the image can be opened, the list
\* issue_date_candidates has one entry per region, in the order upper_middle,
\* left_side, right_side, also for a region without a date and for a region
\* whose OCR invocation raised.
C21_OneEntryPerRegion ==
    (variant = "pure" /\ SamplingReached /\ pc = "exited" /\ SamplingOpen.ok) =>
        /\ Len(result["issue_date_candidates"]) = Len(regions)
        /\ \A i \in DOMAIN regions :
               result["issue_date_candidates"][i].region = regions[i]

\* C22: after a run of the pure or simplified extractor the file at image_path
\* exists with its original content, and nothing but a crop path different
\* from image_path was written or removed.
C22_InputFileUntouched ==
    (HasFallback /\ Returned /\ ~first_run.ran) =>
        /\ image_path \in DOMAIN fs
        /\ fs[image_path] = "orig"
        /\ image_path \notin (fs_writes \cup fs_removes)
        /\ (fs_writes \cup fs_removes) \subseteq { TempPath }

\* C23: in the full and simplified extractors a reported issue_date is the
\* date the cascade finds in the text of one of the OCR passes alone.
C23_DateFromOnePass ==
    (variant \in { "full", "simplified" } /\ SamplingReached /\ pc = "exited"
       /\ "issue_date" \in DOMAIN result /\ ~result["issue_date"].none) =>
        \E i \in DOMAIN ocr_calls :
            /\ NotRaised(ocr_calls[i])
            /\ extract_issue_date_from_text(variant, TextOf(ocr_calls[i]))
                   = result["issue_date"]

====
